---------------------------- MODULE Spec2Model ----------------------------
(***************************************************************************)
(* Model of approval_server.py: the MCP tool permissions__approve (create  *)
(* a request row, send the WhatsApp message, poll the table) and the       *)
(* Twilio webhook that records the human's decision.                       *)
(*                                                                         *)
(* Python strings are sequences of one-character strings.  A missing form  *)
(* field (None) and an empty one ("") are both the empty sequence: the     *)
(* code only ever tests these fields for truthiness.                       *)
(*                                                                         *)
(* Both handlers are coroutines of one asyncio event loop: a step of the   *)
(* model is the code that runs between two awaits.  The clock `now` is     *)
(* datetime.utcnow() in whole seconds.                                     *)
(***************************************************************************)
EXTENDS Integers, Sequences, FiniteSets, TLC

VARIABLES
    now,            \* datetime.utcnow(), seconds
    twilio_client,  \* TRUE iff the Twilio client was constructed (line 53-55)
    APPROVAL_PHONE, \* os.environ.get("APPROVAL_PHONE") (line 51)
    store,          \* rows of table ApprovalRequest
    calls,          \* one record per permissions__approve invocation
    hooks,          \* one record per POST /twilio-webhook delivery
    outbox,         \* messages handed to twilio_client.messages.create
    enc,            \* parser check: the (shape, action, id, ...) encoded
    dec             \* parser check: what the webhook parser decoded

vars == <<now, twilio_client, APPROVAL_PHONE, store, calls, hooks, outbox, enc, dec>>

---------------------------------------------------------------------------
(* Python str operations *)

None == <<>>

LowerAlpha == <<"a","b","c","d","e","f","g","h","i","j","k","l","m",
                "n","o","p","q","r","s","t","u","v","w","x","y","z">>
UpperAlpha == <<"A","B","C","D","E","F","G","H","I","J","K","L","M",
                "N","O","P","Q","R","S","T","U","V","W","X","Y","Z">>

UpperChar(c) ==
    IF \E i \in DOMAIN LowerAlpha : LowerAlpha[i] = c
    THEN UpperAlpha[CHOOSE i \in DOMAIN LowerAlpha : LowerAlpha[i] = c]
    ELSE c

\* str.upper()
Upper(s) == [i \in DOMAIN s |-> UpperChar(s[i])]

IsSpace(c) == c \in {" ", "\t", "\n"}

RECURSIVE LStrip(_)
LStrip(s) == IF s # <<>> /\ IsSpace(Head(s)) THEN LStrip(Tail(s)) ELSE s

RECURSIVE RStrip(_)
RStrip(s) ==
    IF s # <<>> /\ IsSpace(s[Len(s)]) THEN RStrip(SubSeq(s, 1, Len(s) - 1)) ELSE s

\* str.strip()
Strip(s) == RStrip(LStrip(s))

\* str.startswith(p)
StartsWith(s, p) == Len(s) >= Len(p) /\ SubSeq(s, 1, Len(p)) = p

\* str.replace(old, new): every non-overlapping occurrence, left to right
RECURSIVE Replace(_, _, _)
Replace(s, old, new) ==
    IF Len(s) < Len(old) \/ old = <<>> THEN s
    ELSE IF StartsWith(s, old)
         THEN new \o Replace(SubSeq(s, Len(old) + 1, Len(s)), old, new)
         ELSE <<Head(s)>> \o Replace(Tail(s), old, new)

RECURSIVE SplitFrom(_, _, _)
SplitFrom(s, sep, cur) ==
    IF s = <<>> THEN <<cur>>
    ELSE IF StartsWith(s, sep)
         THEN <<cur>> \o SplitFrom(SubSeq(s, Len(sep) + 1, Len(s)), sep, <<>>)
         ELSE SplitFrom(Tail(s), sep, Append(cur, Head(s)))

\* str.split(sep)
Split(s, sep) == SplitFrom(s, sep, <<>>)

\* truthiness of an Optional[str]
Truthy(s) == s # <<>>

---------------------------------------------------------------------------
(* String literals of the program *)

WhatsAppPrefix == <<"w","h","a","t","s","a","p","p",":">>
StrApprove == <<"a","p","p","r","o","v","e">>
StrDeny == <<"d","e","n","y">>
StrAPPROVEsp == <<"A","P","P","R","O","V","E"," ">>
StrDENYsp == <<"D","E","N","Y"," ">>
Underscore == <<"_">>
Colon == <<":">>

---------------------------------------------------------------------------
(* The webhook's parser, lines 222-275 *)

NoForm == [Body |-> None, From |-> None, To |-> None, ListId |-> None,
           ButtonText |-> None, ButtonPayload |-> None, MessageStatus |-> None]

Reply(kind, reason) ==
    [kind |-> kind, reason |-> reason, short_id |-> None, response |-> "",
     response_text |-> None]

Decision(short_id, response, response_text) ==
    [kind |-> "decision", reason |-> "", short_id |-> short_id,
     response |-> response, response_text |-> response_text]

\* a variant that takes every action for an approval
ResponseOf_approved(action) == "approved"
\* lines 238 and 250
ResponseOf(action) == IF action = StrApprove THEN "approved" ELSE "denied"

ParseButton(f) ==
    LET parts == Split(f.ButtonPayload, Underscore) IN
    IF Len(parts) = 2
    THEN IF parts[1] \in {StrApprove, StrDeny}
         THEN Decision(parts[2], ResponseOf(parts[1]),
                       IF Truthy(f.ButtonText) THEN f.ButtonText
                       ELSE parts[1] \o Underscore \o parts[2])
         ELSE Reply("ignored", "Invalid button payload")
    ELSE Reply("ignored", "Invalid button payload format")

ParseList(f) ==
    LET parts == Split(f.ListId, Colon) IN
    IF Len(parts) = 2
    THEN IF parts[1] \in {StrApprove, StrDeny}
         THEN Decision(parts[2], ResponseOf(parts[1]), parts[1] \o Colon \o parts[2])
         ELSE Reply("ignored", "Invalid list selection")
    ELSE Reply("ignored", "Invalid list ID format")

ParseText(f) ==
    IF ~Truthy(f.Body) THEN Reply("ignored", "No body content")
    ELSE LET body == Upper(Strip(f.Body)) IN
         IF StartsWith(body, StrAPPROVEsp)
         THEN Decision(Strip(Replace(body, StrAPPROVEsp, <<>>)), "approved", body)
         ELSE IF StartsWith(body, StrDENYsp)
         THEN Decision(Strip(Replace(body, StrDENYsp, <<>>)), "denied", body)
         ELSE Reply("ignored", "Invalid format")

ParseWebhook(f) ==
    IF Truthy(f.MessageStatus) /\ ~Truthy(f.Body)
    THEN Reply("ok", "Status callback received")
    ELSE IF ~Truthy(f.From) THEN Reply("error", "Missing From field")
    ELSE IF Truthy(f.ButtonPayload) THEN ParseButton(f)
    ELSE IF Truthy(f.ListId) THEN ParseList(f)
    ELSE ParseText(f)

---------------------------------------------------------------------------
(* Program constants and the bounds of the model *)

ExpiryMinutes == 5
max_wait_time == 300
check_interval == 2
ShortIdLength == 8

ExpirySeconds == ExpiryMinutes * 60

\* permissions__approve is invoked at a time in 0..MaxStartTime
MaxStartTime == 1
\* the blocking call twilio_client.messages.create takes 1..MaxSendDelay
\* seconds: start_time (line 150) is read later than expires_at is computed
MaxSendDelay == 2
\* how far around the expiry time (before, and after the last possible
\* time-out) the handlers are observed second by second
LateSpan == 1
\* how late, at most, the event loop resumes a coroutine whose sleep is over
MaxOversleep == 1

EarlySpan == MaxStartTime + MaxSendDelay + check_interval
MaxTime == ExpirySeconds + MaxStartTime + MaxSendDelay + LateSpan

\* The instants at which handlers run.  Between the early and the late span
\* a waiting call only repeats polls that read "pending, not expired".
LateStart == ExpirySeconds - LateSpan
TimePoints == (0..EarlySpan) \cup (LateStart..MaxTime)

---------------------------------------------------------------------------
(* Values of the environment *)

Phone1 == <<"+","1">>
Phone2 == <<"+","2">>
TwilioNumber == WhatsAppPrefix \o <<"+","9">>

IdLetters == <<"a","b","c","1","2","3","4","5">>
IdDigits == <<"1","2","3","4","5","6","7","8">>

\* short ids uuid4 produces in the lifecycle specifications
GenIds == {IdLetters, IdDigits}

Calls == {"c1", "c2"}
Hooks == {"w1", "w2"}

---------------------------------------------------------------------------
(* Table ApprovalRequest, lines 26-36.  description and requester are text *)
(* that no handler reads back; Optional[datetime] is a set of at most one  *)
(* time.                                                                   *)

NewRow(short_id, request_id, phone, t, expires_at) ==
    [id |-> short_id, request_id |-> request_id, phone_number |-> phone,
     status |-> "pending", created_at |-> t, responded_at |-> {},
     response |-> None, expires_at |-> expires_at]

\* a variant without the constraints
CanInsert_always(st, row) == TRUE
\* session.add(approval); session.commit(): primary key id, unique request_id
CanInsert(st, row) ==
    \A r \in st : r.id # row.id /\ r.request_id # row.request_id

\* select(ApprovalRequest).where(id == short_id)
SelectById(st, short_id) == {r \in st : r.id = short_id}

\* a variant that leaves the row in place
Rollback_keep(st, short_id) == st
\* a variant that empties the table
Rollback_all(st, short_id) == {}
\* lines 176-180: session.get / session.delete / session.commit
Rollback(st, short_id) == st \ SelectById(st, short_id)

\* a variant that selects by id alone
FindRequest_anyphone(st, short_id, from_phone) == {r \in st : r.id = short_id}
\* lines 283-287: select where id == short_id and phone_number == from_phone
FindRequest(st, short_id, from_phone) ==
    {r \in st : r.id = short_id /\ r.phone_number = from_phone}

\* line 280
FromPhone(From) ==
    IF Truthy(From) /\ StartsWith(From, WhatsAppPrefix)
    THEN Replace(From, WhatsAppPrefix, <<>>) ELSE From

\* line 112
ToNumber(phone) ==
    IF ~StartsWith(phone, WhatsAppPrefix) THEN WhatsAppPrefix \o phone ELSE phone

---------------------------------------------------------------------------
(* permissions__approve, lines 84-181 *)

NoResult == [kind |-> "none", message |-> ""]
IdleCall == [pc |-> "idle", short_id |-> None, request_id |-> <<>>,
             expires_at |-> 0, start_time |-> 0, sleep_left |-> 0,
             result |-> NoResult]

Returned(call, kind, message) ==
    [call EXCEPT !.pc = "done", !.sleep_left = 0,
                 !.result = [kind |-> kind, message |-> message]]

\* a variant of the loop without the time limit and the expiry check
LoopOutcome_forever(start_time, expires_at, rows, t) ==
    IF \E r \in rows : r.status # "pending"
    THEN IF \E r \in rows : r.status = "approved" THEN "approved" ELSE "denied"
    ELSE "sleep"
\* One pass of the while loop, lines 152-172, taken at time t with the rows
\* the select returned: the value returned, or "sleep".
LoopOutcome(start_time, expires_at, rows, t) ==
    IF ~(t - start_time < max_wait_time) THEN "timed_out"
    ELSE IF \E r \in rows : r.status # "pending"
    THEN IF \E r \in rows : r.status = "approved" THEN "approved" ELSE "denied"
    ELSE IF t > expires_at THEN "expired"
    ELSE "sleep"

\* the call record after one pass of the loop at time t
AfterPoll(call, st, t) ==
    LET o == LoopOutcome(call.start_time, call.expires_at,
                         SelectById(st, call.short_id), t) IN
    CASE o = "approved"  -> Returned(call, "approved", "")
      [] o = "denied"    -> Returned(call, "denied", "Request was denied")
      [] o = "expired"   -> Returned(call, "error", "Request expired")
      [] o = "timed_out" -> Returned(call, "error", "Request timed out")
      [] OTHER           -> [call EXCEPT !.pc = "waiting",
                                         !.sleep_left = check_interval]

\* d seconds pass: every pending asyncio.sleep gets d seconds nearer its end
\* (sleep_left below 0: the coroutine is due and the event loop was busy)
Elapse(cs, d) ==
    [c \in DOMAIN cs |->
        IF cs[c].pc = "waiting"
        THEN [cs[c] EXCEPT !.sleep_left =
                 IF @ - d < 0 - MaxOversleep THEN 0 - MaxOversleep ELSE @ - d]
        ELSE cs[c]]

\* str(uuid.uuid4()): the first 8 characters and the rest, which is unique
Uuid(short_id, c) == [head |-> short_id, tail |-> c]

\* lines 84-90: the configuration guards
ApproveNotConfigured(c) ==
    /\ calls[c].pc = "idle"
    /\ now <= MaxStartTime
    /\ ~twilio_client \/ ~Truthy(APPROVAL_PHONE)
    /\ calls' = [calls EXCEPT ![c] =
            IF ~twilio_client
            THEN Returned(@, "error", "Twilio not configured")
            ELSE Returned(@, "error",
                          "APPROVAL_PHONE not configured in environment variables")]
    /\ UNCHANGED <<now, twilio_client, APPROVAL_PHONE, store, hooks, outbox, enc, dec>>

\* lines 92-109 when the commit violates the primary key: IntegrityError
\* leaves the function, before the try block
ApproveDuplicateId(c, short_id) ==
    /\ calls[c].pc = "idle"
    /\ now <= MaxStartTime
    /\ twilio_client /\ Truthy(APPROVAL_PHONE)
    /\ ~CanInsert(store, NewRow(short_id, Uuid(short_id, c), APPROVAL_PHONE,
                                now, now + ExpirySeconds))
    /\ calls' = [calls EXCEPT ![c] =
            [@ EXCEPT !.pc = "done", !.short_id = short_id,
                      !.request_id = Uuid(short_id, c),
                      !.result = [kind |-> "raised", message |-> "IntegrityError"]]]
    /\ UNCHANGED <<now, twilio_client, APPROVAL_PHONE, store, hooks, outbox, enc, dec>>

\* lines 92-181 up to the first await: insert the row, send the message
\* (d seconds, the event loop is blocked), then either the except clause or
\* the first pass of the loop
ApproveStart(c, short_id, d, sent) ==
    LET expires_at == now + ExpirySeconds
        row == NewRow(short_id, Uuid(short_id, c), APPROVAL_PHONE, now, expires_at)
        created == store \cup {row}
        t == now + d
        call == [calls[c] EXCEPT !.short_id = short_id,
                                 !.request_id = Uuid(short_id, c),
                                 !.expires_at = expires_at,
                                 !.start_time = t]
    IN
    /\ calls[c].pc = "idle"
    /\ now <= MaxStartTime
    /\ twilio_client /\ Truthy(APPROVAL_PHONE)
    /\ CanInsert(store, row)
    /\ now' = t
    /\ IF sent
       THEN /\ store' = created
            /\ outbox' = outbox \cup
                  {[kind |-> "request", to |-> ToNumber(APPROVAL_PHONE),
                    short_id |-> short_id, response |-> ""]}
            /\ calls' = [Elapse(calls, d) EXCEPT ![c] = AfterPoll(call, created, t)]
       ELSE /\ store' = Rollback(created, short_id)
            /\ outbox' = outbox
            /\ calls' = [Elapse(calls, d) EXCEPT ![c] =
                   Returned(call, "error", "Failed to send WhatsApp message")]
    /\ UNCHANGED <<twilio_client, APPROVAL_PHONE, hooks, enc, dec>>

\* asyncio.sleep(check_interval) is over: the next pass of the loop
ApproveWake(c) ==
    /\ calls[c].pc = "waiting"
    /\ calls[c].sleep_left <= 0
    /\ calls' = [calls EXCEPT ![c] = AfterPoll(@, store, now)]
    /\ UNCHANGED <<now, twilio_client, APPROVAL_PHONE, store, hooks, outbox, enc, dec>>

\* A pass of the loop in which the select of lines 153-155 raises (the
\* database is locked or unreadable): the except clause of line 174 covers
\* the loop, so lines 176-180 delete the row and line 181 returns; when the
\* database fails the clean-up too, its exception leaves the function.
ApprovePollFails(c, cleaned) ==
    /\ calls[c].pc = "waiting"
    /\ calls[c].sleep_left <= 0
    /\ store' = IF cleaned THEN Rollback(store, calls[c].short_id) ELSE store
    /\ calls' = [calls EXCEPT ![c] =
            IF cleaned
            THEN Returned(@, "error", "Failed to send WhatsApp message")
            ELSE Returned(@, "raised", "OperationalError")]
    /\ UNCHANGED <<now, twilio_client, APPROVAL_PHONE, hooks, outbox, enc, dec>>

---------------------------------------------------------------------------
(* twilio_webhook, lines 191-329 *)

NoReply == [status |-> "none", reason |-> "", request_id |-> <<>>, response |-> ""]
\* overlap records (for the checks only) that another delivery was in flight
\* while this one was
IdleHook == [pc |-> "idle", form |-> NoForm, result |-> NoReply, overlap |-> FALSE]

Json(status, reason) ==
    [status |-> status, reason |-> reason, request_id |-> <<>>, response |-> ""]

\* a variant without the expiry check
WebhookDecide_noexpiry(row, t) ==
    IF row.status # "pending" THEN "Request already processed" ELSE "update"
\* lines 293-299 on the row the select returned, at time t
WebhookDecide(row, t) ==
    IF row.status # "pending" THEN "Request already processed"
    ELSE IF t > row.expires_at THEN "Request expired"
    ELSE "update"

\* a variant that leaves responded_at unset
UpdateRow_nostamp(row, response, response_text, t) ==
    [row EXCEPT !.status = response, !.response = response_text]
\* lines 302-306
UpdateRow(row, response, response_text, t) ==
    [row EXCEPT !.status = response, !.response = response_text,
                !.responded_at = {t}]

\* lines 313-329: the confirmation message, then the success reply; an
\* exception of messages.create leaves the handler (HTTP 500)
Confirm(w, p, row, sent) ==
    /\ outbox' = IF twilio_client /\ sent
                 THEN outbox \cup {[kind |-> "confirm", to |-> hooks[w].form.From,
                                    short_id |-> p.short_id, response |-> p.response]}
                 ELSE outbox
    /\ hooks' = [hooks EXCEPT ![w] = [@ EXCEPT !.pc = "done", !.result =
            IF twilio_client /\ ~sent
            THEN Json("exception", "TwilioRestException")
            ELSE [status |-> "success", reason |-> "",
                  request_id |-> row.request_id, response |-> p.response]]]

\* await request.form() has returned the fields of the POST
WebhookReceive(w, f) ==
    /\ hooks[w].pc = "idle"
    /\ hooks' = [v \in DOMAIN hooks |->
            IF v = w
            THEN [hooks[v] EXCEPT !.pc = "recv", !.form = f,
                     !.overlap = \E u \in DOMAIN hooks : hooks[u].pc = "recv"]
            ELSE IF hooks[v].pc = "recv"
                 THEN [hooks[v] EXCEPT !.overlap = TRUE]
                 ELSE hooks[v]]
    /\ UNCHANGED <<now, twilio_client, APPROVAL_PHONE, store, calls, outbox, enc, dec>>

\* a variant that writes the decision before it checks status and expiry
WebhookHandle_writefirst(w) ==
    LET f == hooks[w].form
        p == ParseWebhook(f)
        found == FindRequest(store, p.short_id, FromPhone(f.From))
    IN
    /\ hooks[w].pc = "recv"
    /\ UNCHANGED <<now, twilio_client, APPROVAL_PHONE, calls, enc, dec>>
    /\ IF p.kind # "decision"
       THEN /\ hooks' = [hooks EXCEPT ![w] =
                   [@ EXCEPT !.pc = "done", !.result = Json(p.kind, p.reason)]]
            /\ UNCHANGED <<store, outbox>>
       ELSE IF found = {}
       THEN /\ hooks' = [hooks EXCEPT ![w] =
                   [@ EXCEPT !.pc = "done", !.result = Json("error", "Request not found")]]
            /\ UNCHANGED <<store, outbox>>
       ELSE \E row \in found :
            /\ store' = (store \ {row}) \cup
                             {UpdateRow(row, p.response, p.response_text, now)}
            /\ IF WebhookDecide(row, now) # "update"
               THEN /\ hooks' = [hooks EXCEPT ![w] =
                           [@ EXCEPT !.pc = "done",
                                     !.result = Json("error", WebhookDecide(row, now))]]
                    /\ UNCHANGED outbox
               ELSE \E sent \in BOOLEAN : Confirm(w, p, row, sent)

\* lines 222-329 after the await: no other coroutine runs in between
WebhookHandle(w) ==
    LET f == hooks[w].form
        p == ParseWebhook(f)
        found == FindRequest(store, p.short_id, FromPhone(f.From))
    IN
    /\ hooks[w].pc = "recv"
    /\ UNCHANGED <<now, twilio_client, APPROVAL_PHONE, calls, enc, dec>>
    /\ IF p.kind # "decision"
       THEN /\ hooks' = [hooks EXCEPT ![w] =
                   [@ EXCEPT !.pc = "done", !.result = Json(p.kind, p.reason)]]
            /\ UNCHANGED <<store, outbox>>
       ELSE IF found = {}
       THEN /\ hooks' = [hooks EXCEPT ![w] =
                   [@ EXCEPT !.pc = "done", !.result = Json("error", "Request not found")]]
            /\ UNCHANGED <<store, outbox>>
       ELSE \E row \in found :
            IF WebhookDecide(row, now) # "update"
            THEN /\ hooks' = [hooks EXCEPT ![w] =
                        [@ EXCEPT !.pc = "done",
                                  !.result = Json("error", WebhookDecide(row, now))]]
                 /\ UNCHANGED <<store, outbox>>
            ELSE /\ store' = (store \ {row}) \cup
                             {UpdateRow(row, p.response, p.response_text, now)}
                 /\ \E sent \in BOOLEAN : Confirm(w, p, row, sent)

\* the HTTP response has been written: the next delivery may arrive
WebhookDone(w) ==
    /\ hooks[w].pc = "done"
    /\ hooks' = [hooks EXCEPT ![w] = IdleHook]
    /\ UNCHANGED <<now, twilio_client, APPROVAL_PHONE, store, calls, outbox, enc, dec>>

---------------------------------------------------------------------------
(* The clock *)

\* A sleeping call is resumed when its sleep is over, at most MaxOversleep
\* seconds late: sleep_left counts down to -MaxOversleep.
Overdue(cs, d) ==
    \E c \in DOMAIN cs : cs[c].pc = "waiting" /\ cs[c].sleep_left - d < 0 - MaxOversleep

\* a pass of the loop that reads a pending row, inside the budget and the
\* validity window, changes nothing
IdlePoll(call, st, t) ==
    LoopOutcome(call.start_time, call.expires_at, SelectById(st, call.short_id), t)
        = "sleep"

\* One second passes.  Between the two spans of TimePoints the clock advances
\* second by second only to let a sleeping call read a decision that is
\* already in its row.
Tick ==
    /\ \/ now + 1 \in TimePoints
       \/ \E c \in Calls : calls[c].pc = "waiting" /\ ~IdlePoll(calls[c], store, now)
    /\ now < MaxTime
    /\ ~Overdue(calls, 1)
    /\ now' = now + 1
    /\ calls' = Elapse(calls, 1)
    /\ UNCHANGED <<twilio_client, APPROVAL_PHONE, store, hooks, outbox, enc, dec>>

\* To time t of the late span, with no handler other than the poll loops
\* running in between: every waiting call repeats passes that change nothing,
\* the last of them at most check_interval before t.
FastForward(t, left) ==
    /\ now < LateStart /\ t >= LateStart
    /\ \A c \in Calls : calls[c].pc # "waiting" => left[c] = 0
    /\ \A c \in Calls : calls[c].pc = "waiting" =>
            /\ IdlePoll(calls[c], store, now)
            /\ IdlePoll(calls[c], store, t)
    /\ now' = t
    /\ calls' = [c \in Calls |->
            IF calls[c].pc = "waiting"
            THEN [calls[c] EXCEPT !.sleep_left = left[c]] ELSE calls[c]]
    /\ UNCHANGED <<twilio_client, APPROVAL_PHONE, store, hooks, outbox, enc, dec>>

---------------------------------------------------------------------------
(* Callbacks Twilio posts *)

Sender1 == WhatsAppPrefix \o Phone1
Sender2 == WhatsAppPrefix \o Phone2

LabelOf(action) ==
    IF action = StrApprove THEN <<"A","p","p","r","o","v","e">> ELSE <<"D","e","n","y">>

\* quick-reply button: id (payload) and title of the button pressed
ButtonForm(sender, action, short_id) ==
    [NoForm EXCEPT !.From = sender, !.To = TwilioNumber,
                   !.ButtonPayload = action \o Underscore \o short_id,
                   !.ButtonText = LabelOf(action), !.Body = LabelOf(action)]

\* list-picker selection
ListForm(sender, action, short_id) ==
    [NoForm EXCEPT !.From = sender, !.To = TwilioNumber,
                   !.ListId = action \o Colon \o short_id,
                   !.Body = LabelOf(action)]

\* typed reply
TextForm(sender, body) ==
    [NoForm EXCEPT !.From = sender, !.To = TwilioNumber, !.Body = body]

StatusForm ==
    [NoForm EXCEPT !.From = TwilioNumber, !.To = Sender1,
                   !.MessageStatus = <<"r","e","a","d">>]

Foo == <<"f","o","o">>

Forms ==
    {ButtonForm(s, a, i) : s \in {Sender1, Sender2}, a \in {StrApprove}, i \in GenIds}
    \cup {ButtonForm(Sender1, StrDeny, i) : i \in GenIds}
    \cup {ListForm(Sender1, StrDeny, i) : i \in GenIds}
    \cup {TextForm(Sender1, StrApprove \o <<" ">> \o i) : i \in GenIds}
    \cup {TextForm(Sender1, StrDENYsp \o i) : i \in GenIds}
    \cup {StatusForm,
          [ButtonForm(Sender1, StrApprove, IdLetters) EXCEPT !.From = None],
          ButtonForm(Sender1, Foo, IdLetters),
          [NoForm EXCEPT !.From = Sender1, !.ListId = StrApprove],
          [NoForm EXCEPT !.From = Sender1],
          TextForm(Sender1, <<"o","k">>)}

---------------------------------------------------------------------------
(* The lifecycle specification *)

NoEnc == [shape |-> "none", action |-> None, short_id |-> None]
NoDec == Reply("none", "")

Init ==
    /\ now = 0
    /\ twilio_client \in BOOLEAN
    /\ APPROVAL_PHONE \in {None, Phone1, Sender1}
    /\ store = {}
    /\ calls = [c \in Calls |-> IdleCall]
    /\ hooks = [w \in Hooks |-> IdleHook]
    /\ outbox = {}
    /\ enc = NoEnc
    /\ dec = NoDec

\* the steps of the calls in C and of the deliveries in H, which carry forms of F
Step(C, H, F) ==
    \/ Tick
    \/ \E t \in TimePoints, left \in [Calls -> 0..check_interval] : FastForward(t, left)
    \/ \E c \in C : ApproveNotConfigured(c)
    \/ \E c \in C, i \in GenIds, d \in 1..MaxSendDelay, sent \in BOOLEAN :
          ApproveStart(c, i, d, sent)
    \/ \E c \in C : ApproveWake(c)
    \/ \E w \in H, f \in F : WebhookReceive(w, f)
    \/ \E w \in H : WebhookHandle(w)
    \/ \E w \in H : WebhookDone(w)

\* one call, one delivery at a time, every form
Next == Step({"c1"}, {"w1"}, Forms)

Spec == Init /\ [][Next]_vars

\* two deliveries in flight at once, for the same request
RaceForms ==
    {ButtonForm(Sender1, StrApprove, IdLetters), ListForm(Sender1, StrDeny, IdLetters),
     TextForm(Sender1, StrDENYsp \o IdLetters)}

NextRace == Step({"c1"}, Hooks, RaceForms)

SpecRace == Init /\ [][NextRace]_vars

\* time advances, and the event loop resumes a coroutine whose sleep is over
LiveForms ==
    {ButtonForm(Sender1, StrApprove, IdLetters), ButtonForm(Sender1, StrDeny, IdDigits),
     ButtonForm(Sender2, StrApprove, IdLetters),
     TextForm(Sender1, StrApprove \o <<" ">> \o IdLetters), StatusForm}

NextLive == Step({"c1"}, {"w1"}, LiveForms)

SpecLive ==
    /\ Init /\ [][NextLive]_vars
    /\ WF_vars(Tick \/ \E t \in TimePoints, left \in [Calls -> 0..check_interval] :
                        FastForward(t, left))
    /\ WF_vars(ApproveWake("c1"))

---------------------------------------------------------------------------
(* The parser specification: encode a decision in one of the three payload *)
(* shapes, then decode it with the webhook's parser                        *)

HexSample == {"0", "a", "f"}
ShortIds == [1..ShortIdLength -> HexSample]

Encode(e) ==
    CASE e.shape = "button" -> ButtonForm(Sender1, e.action, e.short_id)
      [] e.shape = "list"   -> ListForm(Sender1, e.action, e.short_id)
      [] OTHER              -> TextForm(Sender1, Upper(e.action) \o <<" ">> \o e.short_id)

InitParse ==
    /\ now = 0
    /\ twilio_client = TRUE
    /\ APPROVAL_PHONE = Phone1
    /\ store = {}
    /\ calls = [c \in Calls |-> IdleCall]
    /\ hooks = [w \in Hooks |-> IdleHook]
    /\ outbox = {}
    /\ enc \in [shape : {"button", "list", "text"}, action : {StrApprove, StrDeny},
                short_id : ShortIds]
    /\ dec = NoDec

Decode ==
    /\ dec = NoDec
    /\ dec' = ParseWebhook(Encode(enc))
    /\ UNCHANGED <<now, twilio_client, APPROVAL_PHONE, store, calls, hooks, outbox, enc>>

SpecParse == InitParse /\ [][Decode]_vars

---------------------------------------------------------------------------
(* The lifecycle with a database that may fail a poll *)

FaultForms ==
    {ButtonForm(Sender1, StrApprove, IdLetters), ListForm(Sender1, StrDeny, IdLetters),
     ButtonForm(Sender2, StrApprove, IdLetters), StatusForm}

NextFault ==
    \/ Step({"c1"}, {"w1"}, FaultForms)
    \/ \E cleaned \in BOOLEAN : ApprovePollFails("c1", cleaned)

SpecFault == Init /\ [][NextFault]_vars

---------------------------------------------------------------------------
(* The lifecycle with callbacks that mix the shapes *)

StrRead == <<"r","e","a","d">>

ShapeForms ==
    {[ButtonForm(Sender1, StrApprove, IdDigits) EXCEPT !.Body = None],
     [ListForm(Sender1, StrDeny, IdDigits) EXCEPT !.Body = None],
     [ButtonForm(Sender1, Foo, IdDigits) EXCEPT !.Body = StrAPPROVEsp \o IdDigits],
     [ButtonForm(Sender1, StrApprove, IdDigits) EXCEPT
         !.ButtonPayload = StrApprove, !.ListId = StrDeny \o Colon \o IdDigits],
     [ButtonForm(Sender1, StrApprove, IdDigits) EXCEPT
         !.ListId = StrDeny \o Colon \o IdDigits],
     [ButtonForm(Sender1, StrApprove, IdDigits) EXCEPT
         !.Body = None, !.MessageStatus = StrRead],
     [ListForm(Sender1, StrDeny, IdDigits) EXCEPT
         !.Body = None, !.MessageStatus = StrRead],
     StatusForm}

NextShape == Step({"c1"}, {"w1"}, ShapeForms)

SpecShape == Init /\ [][NextShape]_vars

---------------------------------------------------------------------------
(* Two calls of permissions__approve in flight *)

TwoForms ==
    {ButtonForm(Sender1, StrApprove, IdLetters), ButtonForm(Sender1, StrDeny, IdDigits)}

NextTwo ==
    \/ Step(Calls, {"w1"}, TwoForms)
    \/ \E c \in Calls, i \in GenIds : ApproveDuplicateId(c, i)
    \/ \E c \in Calls, cleaned \in BOOLEAN : ApprovePollFails(c, cleaned)

SpecTwo == Init /\ [][NextTwo]_vars

---------------------------------------------------------------------------
(* Claims *)

\* the step is the handling of delivery w (the code after the await)
Handled(w) == hooks[w].pc # "done" /\ hooks'[w].pc = "done"

\* what the parser made of delivery w
Parsed(w) == ParseWebhook(hooks[w].form)

\* the rows the lookup of delivery w finds
Target(w) == FindRequest(store, Parsed(w).short_id, FromPhone(hooks[w].form.From))

\* Form f is a well-formed callback for short_id: it has a sender, is no
\* status callback, and carries an action and that id as a button payload,
\* else as a list selection, else as a typed reply in any letter case.
WellFormed(f, short_id) ==
    /\ Truthy(f.From) /\ ~Truthy(f.MessageStatus)
    /\ \E a \in {StrApprove, StrDeny} :
          \/ f.ButtonPayload = a \o Underscore \o short_id
          \/ f.ButtonPayload = None /\ f.ListId = a \o Colon \o short_id
          \/ /\ f.ButtonPayload = None /\ f.ListId = None
             /\ Upper(Strip(f.Body)) = Upper(a \o <<" ">> \o short_id)

\* delivery w is a well-formed callback for row r, from the address stored in it
CallbackFor(w, r) ==
    /\ WellFormed(hooks[w].form, r.id)
    /\ FromPhone(hooks[w].form.From) = r.phone_number

WaitErrors == {"Request expired", "Request timed out"}

\* C1: a decision is never both recorded and missed: whenever
\* permissions__approve has returned "Request expired" or "Request timed out",
\* the row of that request is (still) pending.
C1_DecisionNeverMissed ==
    \A c \in Calls :
        (calls[c].pc = "done" /\ calls[c].result.kind = "error"
           /\ calls[c].result.message \in WaitErrors)
        => \A r \in SelectById(store, calls[c].short_id) : r.status = "pending"

\* C2: in every step, the status of a request changes only from pending to
\* approved or denied, and only while the clock has not passed expires_at.
C2_StatusMonotonic ==
    [][\A r \in store : \A q \in store' :
          (q.request_id = r.request_id /\ q.status # r.status)
          => /\ r.status = "pending"
             /\ q.status \in {"approved", "denied"}
             /\ now <= r.expires_at]_vars

C2_Witness ==
    /\ \E r \in store : r.status = "denied" /\ r.responded_at = {r.expires_at}
                        /\ now > r.expires_at
    /\ hooks["w1"].pc = "done" /\ hooks["w1"].result.status = "error"

\* C3: of two deliveries that are well-formed callbacks for the same request
\* from its sender, the one handled once the other has returned success
\* returns "Request already processed" and changes no row, and the row holds
\* the decision of the one that succeeded.
C3_OneDeliveryWins ==
    [][\A w \in Hooks : \A v \in Hooks \ {w} : \A r \in store :
          (Handled(v) /\ hooks[w].pc = "done" /\ hooks[w].result.status = "success"
             /\ hooks[w].result.request_id = r.request_id
             /\ CallbackFor(w, r) /\ CallbackFor(v, r))
          => /\ hooks'[v].result = Json("error", "Request already processed")
             /\ store' = store
             /\ r.status = hooks[w].result.response]_vars

\* two deliveries that decode to the same id and sender
SameTarget(w, v) ==
    /\ Parsed(w).kind = "decision" /\ Parsed(v).kind = "decision"
    /\ Parsed(w).short_id = Parsed(v).short_id
    /\ FromPhone(hooks[w].form.From) = FromPhone(hooks[v].form.From)

\* What holds of C3: the same, of two deliveries whose payloads the parser
\* decodes to the same id and sender.
DecodedDeliveryWins ==
    [][\A w \in Hooks : \A v \in Hooks \ {w} :
          (Handled(v) /\ hooks[w].pc = "done" /\ hooks[w].result.status = "success"
             /\ SameTarget(w, v))
          => /\ hooks'[v].result = Json("error", "Request already processed")
             /\ store' = store
             /\ \A r \in Target(w) : r.status = hooks[w].result.response]_vars

\* both deliveries were in flight together, one won, the other was refused
DecodedDeliveryWins_Witness ==
    /\ hooks["w1"].overlap /\ hooks["w2"].overlap
    /\ hooks["w1"].pc = "done" /\ hooks["w2"].pc = "done"
    /\ SameTarget("w1", "w2")
    /\ hooks["w1"].result.status = "success" /\ hooks["w1"].result.response = "denied"
    /\ hooks["w2"].result.reason = "Request already processed"
    /\ Parsed("w2").response = "approved"
    /\ \A r \in Target("w1") : r.status = "denied"

\* C4: a well-formed callback for a request that is already approved or
\* denied, from its sender, returns "Request already processed" and changes
\* no row.
C4_Idempotent ==
    [][\A w \in Hooks : \A r \in store :
          (Handled(w) /\ r.status # "pending" /\ CallbackFor(w, r))
          => /\ hooks'[w].result = Json("error", "Request already processed")
             /\ store' = store]_vars

\* What holds of C4: a callback that the parser decodes to the id and sender
\* of a decided row returns "Request already processed", and no step changes
\* a row that holds a decision.
DecodedIdempotent ==
    [][/\ \A w \in Hooks :
            (Handled(w) /\ Parsed(w).kind = "decision"
               /\ \E r \in Target(w) : r.status # "pending")
            => /\ hooks'[w].result = Json("error", "Request already processed")
               /\ store' = store
       /\ \A r \in store : r.status # "pending" => r \in store']_vars

DecodedIdempotent_Witness ==
    /\ hooks["w1"].pc = "done"
    /\ hooks["w1"].result.reason = "Request already processed"
    /\ Parsed("w1").response = "denied"
    /\ \E r \in Target("w1") : r.status = "approved" /\ r.responded_at # {now}

\* C5: a well-formed callback for a stored request, from its sender, handled
\* after expires_at returns "Request expired" whatever the status of the row,
\* and changes no row.
C5_ExpiredWhateverStatus ==
    [][\A w \in Hooks : \A r \in store :
          (Handled(w) /\ now > r.expires_at /\ CallbackFor(w, r))
          => /\ hooks'[w].result = Json("error", "Request expired")
             /\ store' = store]_vars

\* What holds of C5: handled after expires_at, a callback that the parser
\* decodes to the id and sender of a row returns "Request expired" when the
\* row is pending and "Request already processed" when it holds a decision;
\* no row changes.
DecodedExpired ==
    [][\A w \in Hooks :
          (Handled(w) /\ Parsed(w).kind = "decision"
             /\ \E r \in Target(w) : now > r.expires_at)
          => /\ \A r \in Target(w) :
                   hooks'[w].result =
                      IF r.status = "pending" THEN Json("error", "Request expired")
                      ELSE Json("error", "Request already processed")
             /\ store' = store]_vars

DecodedExpired_Witness ==
    /\ hooks["w1"].pc = "done"
    /\ hooks["w1"].result.reason = "Request expired"
    /\ calls["c1"].pc = "done"
    /\ \E r \in Target("w1") : r.status = "pending" /\ now > r.expires_at

\* C6: a well-formed callback for the id of a stored request, sent from
\* another address than the one stored for it, returns "Request not found"
\* and changes no row.
C6_RecipientIsolation ==
    [][\A w \in Hooks : \A r \in store :
          (Handled(w) /\ WellFormed(hooks[w].form, r.id)
             /\ FromPhone(hooks[w].form.From) # FromPhone(r.phone_number))
          => /\ hooks'[w].result = Json("error", "Request not found")
             /\ store' = store]_vars

C6_Witness ==
    /\ hooks["w1"].pc = "done"
    /\ hooks["w1"].form = ButtonForm(Sender2, StrApprove, IdLetters)
    /\ hooks["w1"].result.reason = "Request not found"
    /\ \E r \in SelectById(store, IdLetters) :
          r.status = "pending" /\ now <= r.expires_at /\ r.phone_number = Phone1

\* C7: a typed "approve <id>", in any letter case, from the registered
\* recipient, for a request with a generated id that is pending and
\* unexpired, makes the row approved.
C7_FreeTextApproves ==
    [][\A w \in Hooks : \A r \in store :
          (Handled(w)
             /\ r.id \in GenIds /\ r.status = "pending" /\ now <= r.expires_at
             /\ FromPhone(hooks[w].form.From) = r.phone_number
             /\ hooks[w].form = TextForm(hooks[w].form.From, hooks[w].form.Body)
             /\ Upper(hooks[w].form.Body) = Upper(StrApprove \o <<" ">> \o r.id))
          => \E q \in store' : q.request_id = r.request_id /\ q.status = "approved"]_vars

\* C8: decoding the payload that encodes (action, id) in any of the three
\* shapes yields the decision of that action and the very same id.
C8_ParserRoundTrip ==
    dec # NoDec
    => /\ dec.kind = "decision"
       /\ dec.response = ResponseOf(enc.action)
       /\ dec.short_id = enc.short_id

SendFailed == "Failed to send WhatsApp message"

\* C9: after a failed send the call has returned an error and no row of its
\* id is left; every pending row is one whose request message was sent.
C9_SendFailureRolledBack ==
    /\ \A c \in Calls :
          (calls[c].pc = "done" /\ calls[c].result.message = SendFailed)
          => /\ calls[c].result.kind = "error"
             /\ SelectById(store, calls[c].short_id) = {}
    /\ \A r \in store :
          r.status = "pending"
          => \E m \in outbox : m.kind = "request" /\ m.short_id = r.id

C9_Witness ==
    /\ calls["c1"].pc = "done"
    /\ calls["c1"].result.message = SendFailed
    /\ calls["c1"].short_id = IdLetters
    /\ now > 0

\* C10: a call that waits in the poll loop eventually returns approved,
\* denied or an error.
C10_CallReturns ==
    (calls["c1"].pc = "waiting")
    ~> (calls["c1"].pc = "done"
          /\ calls["c1"].result.kind \in {"approved", "denied", "error"})

C10_Witness ==
    /\ calls["c1"].pc = "done"
    /\ calls["c1"].result.message = "Request timed out"
    /\ hooks["w1"].pc = "done"
    /\ hooks["w1"].result.reason = "Request expired"

\* the step is a handling of delivery w that writes a decision into row r
Accepts(w, r) ==
    /\ Handled(w) /\ r \in store /\ r \notin store'
    /\ r.status = "pending"

\* C11: when the handling of a callback writes a decision, it returns
\* success with the full request id and the decision, also when sending the
\* confirmation fails, and the row holds that decision, the time of the
\* handling and the response text.
C11_ConfirmationFailureNonFatal ==
    [][\A w \in Hooks : \A r \in store :
          Accepts(w, r)
          => /\ hooks'[w].result =
                   [status |-> "success", reason |-> "",
                    request_id |-> r.request_id, response |-> Parsed(w).response]
             /\ UpdateRow(r, Parsed(w).response, Parsed(w).response_text, now)
                   \in store']_vars

\* What holds of C11: whatever the fate of the confirmation, the row holds
\* the accepted decision, the time of the handling and the response text.
DecisionKept ==
    [][\A w \in Hooks : \A r \in store :
          Accepts(w, r)
          => /\ hooks'[w].result.status \in {"success", "exception"}
             /\ UpdateRow(r, Parsed(w).response, Parsed(w).response_text, now)
                   \in store']_vars

DecisionKept_Witness ==
    /\ hooks["w1"].pc = "done" /\ hooks["w1"].result.status = "exception"
    /\ \E r \in Target("w1") : r.status = "approved" /\ r.responded_at = {now}
    /\ \A m \in outbox : m.kind # "confirm"

\* C12: in every state each row has responded_at and response unset exactly
\* when its status is pending, and set when it is approved or denied; no
\* step changes a responded_at that is set.
C12_ResponseFieldsFollowStatus ==
    /\ [](\A r \in store :
            /\ r.status \in {"pending", "approved", "denied"}
            /\ (r.status = "pending") <=> (r.responded_at = {})
            /\ (r.status = "pending") <=> (r.response = None))
    /\ [][\A r \in store : \A q \in store' :
            (q.request_id = r.request_id /\ r.responded_at # {})
            => q.responded_at = r.responded_at]_vars

\* a decided row, stamped earlier, after a further callback for it was refused
C12_Witness ==
    /\ hooks["w1"].pc = "done"
    /\ hooks["w1"].result.reason = "Request already processed"
    /\ \E r \in Target("w1") :
          /\ r.status = "denied" /\ r.response # None
          /\ \E t \in r.responded_at : t < now

\* C13: a call whose request never got a decision does not return
\* "Request timed out": some poll sees the expiry first.
C13_ExpiryNotTimeout ==
    \A c \in Calls :
        (calls[c].pc = "done"
           /\ \A r \in SelectById(store, calls[c].short_id) : r.status = "pending")
        => calls[c].result.message # "Request timed out"

\* What holds of C13: without a decision the call ends with one of the two
\* errors, and not before the time-out or the expiry it reports.
ExpiryOrTimeout ==
    \A c \in Calls : \A r \in SelectById(store, calls[c].short_id) :
        (calls[c].pc = "done" /\ r.status = "pending")
        => \/ /\ calls[c].result.message = "Request expired"
              /\ now > calls[c].expires_at
           \/ /\ calls[c].result.message = "Request timed out"
              /\ now - calls[c].start_time >= max_wait_time

ExpiryOrTimeout_Witness ==
    /\ calls["c1"].pc = "done"
    /\ calls["c1"].result.message = "Request expired"
    /\ \E r \in SelectById(store, calls["c1"].short_id) : r.status = "pending"

\* the replies of twilio_webhook other than success
Refusals == {"ok", "ignored", "error"}

\* C14: a handling that ends with a reply other than success changes no row
\* and sends no message; a step sends a confirmation only if it is a
\* handling that takes a row from pending to approved or denied.
C14_RefusalsChangeNothing ==
    [][/\ \A w \in Hooks :
            (Handled(w) /\ hooks'[w].result.status \in Refusals)
            => store' = store /\ outbox' = outbox
       /\ (\E m \in outbox' \ outbox : m.kind = "confirm")
            => \E w \in Hooks : \E r \in store : \E q \in store' :
                  /\ Accepts(w, r)
                  /\ q.request_id = r.request_id
                  /\ q.status \in {"approved", "denied"}]_vars

\* the unknown action 'foo_abc12345' was ignored while abc12345 is pending
\* and could have been decided
C14_Witness ==
    /\ hooks["w1"].pc = "done"
    /\ hooks["w1"].form = ButtonForm(Sender1, Foo, IdLetters)
    /\ hooks["w1"].result = Json("ignored", "Invalid button payload")
    /\ \E r \in SelectById(store, IdLetters) :
          r.status = "pending" /\ now <= r.expires_at /\ r.phone_number = Phone1
    /\ \A m \in outbox : m.kind # "confirm"

\* the request message for row r was sent
Notified(r) == \E m \in outbox : m.kind = "request" /\ m.short_id = r.id

\* C15: a row whose request message was sent, and a row that holds a
\* decision, is still in the store after every step.
C15_DeletedOnlyOnSendFailure ==
    [][\A r \in store :
          (Notified(r) \/ r.status # "pending")
          => \E q \in store' : q.request_id = r.request_id]_vars

\* Form f carries an action and short_id as a button payload, else as a list
\* selection (the two shapes that are not typed), and is no status callback
StructuredFor(f, short_id) ==
    /\ Truthy(f.From) /\ ~Truthy(f.MessageStatus)
    /\ \E a \in {StrApprove, StrDeny} :
          \/ f.ButtonPayload = a \o Underscore \o short_id
          \/ f.ButtonPayload = None /\ f.ListId = a \o Colon \o short_id

\* delivery w comes from the address the request message of row r went to
FromRecipient(w, r) ==
    FromPhone(hooks[w].form.From) = FromPhone(ToNumber(r.phone_number))

\* C16: a button or list callback for a pending, unexpired request, sent
\* from the address its request message went to, decides the request,
\* whether or not APPROVAL_PHONE carries the prefix 'whatsapp:'.
C16_PrefixInsensitiveMatch ==
    [][\A w \in Hooks : \A r \in store :
          (Handled(w) /\ r.status = "pending" /\ now <= r.expires_at
             /\ StructuredFor(hooks[w].form, r.id) /\ FromRecipient(w, r))
          => \E q \in store' : /\ q.request_id = r.request_id
                               /\ q.status = Parsed(w).response]_vars

\* What holds of C16: the same when APPROVAL_PHONE was configured bare.
BareRecipientMatched ==
    [][\A w \in Hooks : \A r \in store :
          (Handled(w) /\ r.status = "pending" /\ now <= r.expires_at
             /\ StructuredFor(hooks[w].form, r.id) /\ FromRecipient(w, r)
             /\ ~StartsWith(r.phone_number, WhatsAppPrefix))
          => \E q \in store' : /\ q.request_id = r.request_id
                               /\ q.status = Parsed(w).response]_vars

BareRecipientMatched_Witness ==
    /\ hooks["w1"].pc = "done" /\ hooks["w1"].result.status = "success"
    /\ hooks["w1"].form.From = Sender1
    /\ APPROVAL_PHONE = Phone1
    /\ \E r \in Target("w1") : r.status = "approved"

\* Form f has no body and nothing but a status field
StatusOnly(f) ==
    /\ Truthy(f.MessageStatus) /\ ~Truthy(f.Body)
    /\ ~Truthy(f.ButtonPayload) /\ ~Truthy(f.ListId)

\* the button payload, and without one the list selection, of f names
\* action a and short_id
Selects(f, a, short_id) ==
    \/ f.ButtonPayload = a \o Underscore \o short_id
    \/ f.ButtonPayload = None /\ f.ListId = a \o Colon \o short_id

\* the handling of delivery w, which is no bare status callback, (1) is
\* ignored when its button payload is not a decision, whatever body and list
\* selection it carries, and (2) decides the pending, unexpired request its
\* button payload (without one, its list selection) names for the registered
\* sender, with or without a body
ShapesDecide(w) ==
    LET f == hooks[w].form IN
    /\ (Truthy(f.ButtonPayload) /\ ParseButton(f).kind # "decision")
          => hooks'[w].result.status = "ignored" /\ store' = store
    /\ \A r \in store : \A a \in {StrApprove, StrDeny} :
          (r.status = "pending" /\ now <= r.expires_at
             /\ FromPhone(f.From) = r.phone_number /\ Selects(f, a, r.id))
          => \E q \in store' : /\ q.request_id = r.request_id
                               /\ q.status = ResponseOf(a)

\* C17: structured shapes take precedence over free text and are decisions
\* on their own: every handled delivery with a sender, other than one with no
\* body and nothing but a status field, is treated as ShapesDecide says.
C17_StructuredShapesDecide ==
    [][\A w \in Hooks :
          (Handled(w) /\ Truthy(hooks[w].form.From) /\ ~StatusOnly(hooks[w].form))
          => ShapesDecide(w)]_vars

\* What holds of C17: the same of deliveries that carry no status field.
ShapesDecideWithoutStatus ==
    [][\A w \in Hooks :
          (Handled(w) /\ Truthy(hooks[w].form.From)
             /\ ~Truthy(hooks[w].form.MessageStatus))
          => ShapesDecide(w)]_vars

\* a button without body was applied
ShapesDecideWithoutStatus_Witness ==
    /\ hooks["w1"].pc = "done" /\ hooks["w1"].result.status = "success"
    /\ hooks["w1"].form = [ButtonForm(Sender1, StrApprove, IdDigits) EXCEPT !.Body = None]
    /\ \E r \in Target("w1") : r.status = "approved"

\* an unknown button action was ignored although the body is a valid reply
\* for a request that could be decided
ShapesPrecede_Witness ==
    /\ hooks["w1"].pc = "done"
    /\ hooks["w1"].result = Json("ignored", "Invalid button payload")
    /\ hooks["w1"].form.Body = StrAPPROVEsp \o IdDigits
    /\ \E r \in SelectById(store, IdDigits) :
          r.status = "pending" /\ now <= r.expires_at /\ r.phone_number = Phone1

\* the step is the start of call c with a short id that is already stored
Collides(c) ==
    /\ calls[c].pc = "idle" /\ calls'[c].pc # "idle"
    /\ SelectById(store, calls'[c].short_id) # {}

StepOf(c) ==
    \/ calls'[c].pc # calls[c].pc
    \/ calls[c].pc = "waiting" /\ calls'[c].sleep_left > calls[c].sleep_left

\* C19: a handling leaves every row unchanged whose id its callback does not
\* name, a step of a call leaves every row of another id unchanged, and a
\* call returns approved or denied only with that status in the row of its
\* own id.
C19_RequestsIndependent ==
    [][/\ \A w \in Hooks : \A r \in store :
            (Handled(w) /\ ~WellFormed(hooks[w].form, r.id)) => r \in store'
       /\ \A r \in store :
            ((\A w \in Hooks : ~Handled(w)) /\ r \notin store')
            => \E c \in Calls : StepOf(c) /\ calls'[c].short_id = r.id
       /\ \A c \in Calls :
            (StepOf(c) /\ calls'[c].pc = "done"
               /\ calls'[c].result.kind \in {"approved", "denied"})
            => \E r \in SelectById(store, calls'[c].short_id) :
                  r.status = calls'[c].result.kind]_vars

\* two requests were in flight together; one was approved by a callback and
\* its call returned so, the other is untouched and its call still waits
C19_Witness ==
    /\ calls["c1"].pc = "done" /\ calls["c1"].result.kind = "approved"
    /\ calls["c2"].pc = "waiting"
    /\ calls["c2"].start_time <= calls["c1"].start_time
    /\ \E r \in SelectById(store, calls["c1"].short_id) : r.status = "approved"
    /\ \E r \in SelectById(store, calls["c2"].short_id) :
          r.status = "pending" /\ r.id # calls["c1"].short_id

\* Form f is a well-formed callback with action a for short_id
ActionFor(f, a, short_id) ==
    /\ Truthy(f.From) /\ ~Truthy(f.MessageStatus)
    /\ \/ f.ButtonPayload = a \o Underscore \o short_id
       \/ f.ButtonPayload = None /\ f.ListId = a \o Colon \o short_id
       \/ /\ f.ButtonPayload = None /\ f.ListId = None
          /\ Upper(Strip(f.Body)) = Upper(a \o <<" ">> \o short_id)

\* the action a status stands for
ActionOf(status) == IF status = "approved" THEN StrApprove ELSE StrDeny

\* C20: a call returns approved (denied) only when the row of its id holds
\* that status, written not after expires_at and not after the return; and a
\* row takes a status only in the handling of a well-formed callback with
\* the matching action for its id, from its stored address, not after its
\* expires_at, that is accepted.
C20_DecisionOnlyFromAcceptedCallback ==
    [][/\ \A c \in Calls :
            (StepOf(c) /\ calls'[c].pc = "done"
               /\ calls'[c].result.kind \in {"approved", "denied"})
            => \E r \in SelectById(store, calls'[c].short_id) :
                  /\ r.status = calls'[c].result.kind
                  /\ r.request_id = calls'[c].request_id
                  /\ \E t \in r.responded_at : t <= r.expires_at /\ t <= now'
       /\ \A r \in store : \A q \in store' :
            (q.request_id = r.request_id /\ q.status # r.status)
            => \E w \in Hooks :
                  /\ Handled(w)
                  /\ ActionFor(hooks[w].form, ActionOf(q.status), r.id)
                  /\ FromPhone(hooks[w].form.From) = r.phone_number
                  /\ now <= r.expires_at
                  /\ q.responded_at = {now}
                  /\ hooks'[w].result.status \in {"success", "exception"}]_vars

\* the call returned denied for a decision taken at the very expiry time,
\* after the last callback was refused
C20_Witness ==
    /\ calls["c1"].pc = "done" /\ calls["c1"].result.kind = "denied"
    /\ \E r \in SelectById(store, calls["c1"].short_id) :
          r.status = "denied" /\ r.responded_at = {r.expires_at}
    /\ hooks["w1"].pc = "done" /\ hooks["w1"].result.status = "error"

=============================================================================
